---- MODULE Spec2Model ----
(***************************************************************************)
(* Model of src/src/App.tsx: the App component's four pieces of React      *)
(* state, the asynchronous processData pipeline run, and the three         *)
(* handlers (handleFileSelect, handleUseSampleData, handleReset).          *)
(*                                                                         *)
(* JavaScript runs each synchronous segment of an async function to        *)
(* completion, so one action is one segment: from a call or a resumed      *)
(* await up to the next await (or the end of the function).  The awaits    *)
(* are parseCSV(file) in handleFileSelect and the 500 ms timer in the step *)
(* loop of processData.  Timers of equal delay fire in the order they were *)
(* set, so pending timers form a FIFO queue.                               *)
(*                                                                         *)
(* parseCSV, generateSampleData and MockRandomForestClassifier are         *)
(* imported from modules that are not part of the available source; they   *)
(* are modelled from the specification (sections 4.1, 4.3, 6).             *)
(***************************************************************************)
EXTENDS Integers, Sequences, FiniteSets, TLC

\* ------------------------------------------------------------------ bounds
MaxRequests == 2      \* analysis requests the user makes in one behaviour
MaxRows == 1          \* data rows of an uploaded file

\* ------------------------------------------------------------- data model
\* Two sensor rows, one on each side of the classification rule.
Hot == [temperature |-> 90, vibration |-> 8]
Cool == [temperature |-> 40, vibration |-> 1]
SensorData == {Hot, Cool}

RECURSIVE SeqsUpTo(_, _)
SeqsUpTo(S, n) ==
    IF n = 0 THEN {<<>>}
    ELSE LET shorter == SeqsUpTo(S, n - 1)
         IN  shorter \cup {Append(s, x) : s \in {t \in shorter : Len(t) = n - 1}, x \in S}

\* An uploaded file: a table that is either malformed or a header plus rows.
Files ==
    {[wellFormed |-> FALSE, rows |-> <<>>]}
        \cup {[wellFormed |-> TRUE, rows |-> s] : s \in SeqsUpTo(SensorData, MaxRows)}
NoFile == [wellFormed |-> FALSE, rows |-> <<>>]

\* parseCSV(file): resolves with the rows, in order, or rejects (FormatError on
\* a malformed table, EmptyInputError on zero data rows).
parseCSV(file) ==
    IF ~file.wellFormed THEN [ok |-> FALSE, data |-> <<>>]
    ELSE IF file.rows = <<>> THEN [ok |-> FALSE, data |-> <<>>]
    ELSE [ok |-> TRUE, data |-> file.rows]

\* generateSampleData(): a fixed sequence of records.
generateSampleData == <<Hot, Cool, Hot>>

\* One row's label under the fixed decision policy.
classify(row) ==
    IF row.temperature > 80 /\ row.vibration > 5 THEN "failure" ELSE "normal"

\* classifier.predict(data): one prediction per row, in input order.
predict(data) ==
    [i \in 1..Len(data) |-> [id |-> i, prediction |-> classify(data[i])]]

\* ------------------------------------------------------------ processData
steps ==
    << [message |-> "Validating data format...", progress |-> 20],
       [message |-> "Preprocessing sensor data...", progress |-> 40],
       [message |-> "Loading Random Forest model...", progress |-> 60],
       [message |-> "Running predictions...", progress |-> 80],
       [message |-> "Generating analysis report...", progress |-> 100] >>

TimerDelay == 500
\* Date.now() - startTime: five timer waits plus scheduling delay.
ProcessingTimes == {Len(steps) * TimerDelay, Len(steps) * TimerDelay + 1}

RECURSIVE CountLabel(_, _)
CountLabel(predictions, label) ==
    IF predictions = <<>> THEN 0
    ELSE (IF Head(predictions).prediction = label THEN 1 ELSE 0)
            + CountLabel(Tail(predictions), label)

\* Mutant: the 'normal' filter is dropped, every prediction is counted.
analysisResultsUnfiltered(data, predictions, processingTime) ==
    [ totalSamples |-> Len(data),
      failurePredictions |-> CountLabel(predictions, "failure"),
      normalPredictions |-> Len(predictions),
      predictions |-> predictions,
      processingTime |-> processingTime ]

\* Mutant: the predictions are stored newest first.
analysisResultsReversed(data, predictions, processingTime) ==
    [ totalSamples |-> Len(data),
      failurePredictions |-> CountLabel(predictions, "failure"),
      normalPredictions |-> CountLabel(predictions, "normal"),
      predictions |-> [i \in 1..Len(predictions) |-> predictions[Len(predictions) + 1 - i]],
      processingTime |-> processingTime ]

analysisResults(data, predictions, processingTime) ==
    [ totalSamples |-> Len(data),
      failurePredictions |-> CountLabel(predictions, "failure"),
      normalPredictions |-> CountLabel(predictions, "normal"),
      predictions |-> predictions,
      processingTime |-> processingTime ]

Null == <<>>

VARIABLES
    state,      \* useState<AppState>('upload')
    progress,   \* useState(0)
    status,     \* useState('')
    results,    \* useState<AnalysisResults | null>(null): Null or <<r>>
    nreq,       \* handler invocations so far
    runs,       \* per invocation: position and local variables
    timers,     \* pending setTimeout callbacks, oldest first
    emitPrev,   \* history: the stage percentage written before emitLast
    emitLast,   \* history: the stage percentage the step loop wrote last
    predicted   \* history: what classifier.predict returned to the run that stored results

vars == <<state, progress, status, results, nreq, runs, timers, emitPrev, emitLast, predicted>>

Requests == 1..MaxRequests

\* pc: "unused"   no such invocation yet
\*     "parsing"  handleFileSelect awaits parseCSV
\*     "waiting"  processData awaits a step timer
\*     "completed" processData returned
\*     "failed"   processData threw
\*     "rejected" parseCSV rejected
NoRun ==
    [ pc |-> "unused", kind |-> "none", file |-> NoFile, data |-> <<>>, step |-> 0,
      emptyInput |-> FALSE, attempts |-> 0, thrown |-> 0, alerts |-> 0,
      unhandled |-> 0, stale |-> FALSE, predicts |-> 0 ]

Init ==
    /\ state = "upload"
    /\ progress = 0
    /\ status = ""
    /\ results = Null
    /\ nreq = 0
    /\ runs = [r \in Requests |-> NoRun]
    /\ timers = <<>>
    /\ emitPrev = 0
    /\ emitLast = 0
    /\ predicted = <<>>

\* <FileUpload> is rendered only while state === 'upload'; the "New Analysis"
\* button only while state === 'results'.
FileUploadRendered == state = "upload"
ResetButtonRendered == state = "results"

\* processData(data) up to its first await: setState('processing'),
\* setProgress(0), then the first iteration of the step loop.  `called` is
\* the invocation table as the calling handler leaves it.
processData(r, called, data) ==
    /\ state' = "processing"
    /\ status' = steps[1].message
    /\ progress' = steps[1].progress
    /\ runs' = [called EXCEPT ![r].pc = "waiting", ![r].data = data, ![r].step = 1,
                              ![r].file = NoFile, ![r].attempts = @ + 1]
    /\ timers' = Append(timers, r)
    /\ emitPrev' = 0
    /\ emitLast' = steps[1].progress
    /\ UNCHANGED <<results, predicted>>

\* Mutant: the catch block alerts and rethrows.
handleFileSelectCatchRethrow(run) ==
    [run EXCEPT !.alerts = @ + 1, !.unhandled = @ + 1]

\* The catch block of handleFileSelect: console.error and one alert.
handleFileSelectCatch(run) ==
    [run EXCEPT !.alerts = @ + 1]

\* handleUseSampleData has no try/catch: the rejection leaves the handler.
handleUseSampleDataThrow(run) ==
    [run EXCEPT !.unhandled = @ + 1]

handleFileSelect(r, file) ==
    /\ FileUploadRendered
    /\ r = nreq + 1
    /\ nreq' = r
    /\ runs' = [runs EXCEPT ![r].pc = "parsing", ![r].kind = "file", ![r].file = file,
                            ![r].emptyInput = (file.wellFormed /\ file.rows = <<>>)]
    /\ UNCHANGED <<state, progress, status, results, timers, emitPrev, emitLast, predicted>>

\* Mutant: the rejection of parseCSV is not caught before processData runs.
handleFileSelectResumeUnguarded(r, outcome) ==
    /\ processData(r, runs, outcome.data)
    /\ UNCHANGED nreq

\* The continuation of `await parseCSV(file)` inside the try block.
handleFileSelectResume(r, outcome) ==
    IF outcome.ok
    THEN /\ processData(r, runs, outcome.data)
         /\ UNCHANGED nreq
    ELSE /\ runs' = [runs EXCEPT ![r] = [handleFileSelectCatch(@) EXCEPT
                                            !.pc = "rejected", !.file = NoFile]]
         /\ UNCHANGED <<state, progress, status, results, nreq, timers, emitPrev, emitLast,
                        predicted>>

ParseSettles(r) ==
    /\ runs[r].pc = "parsing"
    /\ handleFileSelectResume(r, parseCSV(runs[r].file))

handleUseSampleData(r) ==
    /\ FileUploadRendered
    /\ r = nreq + 1
    /\ nreq' = r
    /\ processData(r, [runs EXCEPT ![r].kind = "sample",
                                   ![r].emptyInput = (generateSampleData = <<>>)],
                   generateSampleData)

\* Mutant: the loop announces the next step but sets no further timer.
StepLoopNoTimer(r) ==
    /\ timers # <<>> /\ r = Head(timers)
    /\ runs[r].step < Len(steps)
    /\ status' = steps[runs[r].step + 1].message
    /\ progress' = steps[runs[r].step + 1].progress
    /\ runs' = [runs EXCEPT ![r].step = @ + 1]
    /\ timers' = Tail(timers)
    /\ emitPrev' = emitLast
    /\ emitLast' = steps[runs[r].step + 1].progress
    /\ UNCHANGED <<state, results, nreq, predicted>>

\* A step timer fires and the loop has another step to announce.
StepLoop(r) ==
    /\ timers # <<>> /\ r = Head(timers)
    /\ runs[r].step < Len(steps)
    /\ status' = steps[runs[r].step + 1].message
    /\ progress' = steps[runs[r].step + 1].progress
    /\ runs' = [runs EXCEPT ![r].step = @ + 1]
    /\ timers' = Append(Tail(timers), r)
    /\ emitPrev' = emitLast
    /\ emitLast' = steps[runs[r].step + 1].progress
    /\ UNCHANGED <<state, results, nreq, predicted>>

\* Mutant: classifier.predict is called from inside the loop, when the
\* 'Running predictions...' step has been announced.
CompleteEarly(r) ==
    /\ timers # <<>> /\ r = Head(timers)
    /\ runs[r].step >= Len(steps) - 1
    /\ \E t \in ProcessingTimes :
          LET predictions == predict(runs[r].data)
          IN  /\ results' = <<analysisResults(runs[r].data, predictions, t)>>
              /\ predicted' = predictions
    /\ state' = "results"
    /\ runs' = [runs EXCEPT ![r].pc = "completed", ![r].data = <<>>,
                            ![r].predicts = @ + 1]
    /\ timers' = Tail(timers)
    /\ UNCHANGED <<progress, status, nreq, emitPrev, emitLast>>

\* The last timer fires, classifier.predict returns: aggregate and store.
Complete(r) ==
    /\ timers # <<>> /\ r = Head(timers)
    /\ runs[r].step = Len(steps)
    /\ \E t \in ProcessingTimes :
          LET predictions == predict(runs[r].data)
          IN  /\ results' = <<analysisResults(runs[r].data, predictions, t)>>
              /\ predicted' = predictions
    /\ state' = "results"
    /\ runs' = [runs EXCEPT ![r].pc = "completed", ![r].data = <<>>,
                            ![r].predicts = @ + 1]
    /\ timers' = Tail(timers)
    /\ UNCHANGED <<progress, status, nreq, emitPrev, emitLast>>

\* What the calling handler does with an error thrown by processData.
onProcessDataError(run) ==
    IF run.kind = "file" THEN handleFileSelectCatch(run)
    ELSE handleUseSampleDataThrow(run)

\* The last timer fires and classifier.predict throws.
PredictThrows(r) ==
    /\ timers # <<>> /\ r = Head(timers)
    /\ runs[r].step = Len(steps)
    /\ runs' = [runs EXCEPT ![r] = [onProcessDataError(@) EXCEPT
                                       !.pc = "failed", !.data = <<>>, !.thrown = @ + 1,
                                       !.predicts = @ + 1]]
    /\ timers' = Tail(timers)
    /\ UNCHANGED <<state, progress, status, results, nreq, emitPrev, emitLast, predicted>>

InFlight(r) == runs[r].pc \in {"parsing", "waiting"}

\* The four useState values, and what handleReset makes of them.
AppState == [state |-> state, progress |-> progress, status |-> status, results |-> results]
InitialAppState == [state |-> "upload", progress |-> 0, status |-> "", results |-> Null]

\* Mutant: setState('upload') is missing.
resetAppKeepsState(app) ==
    [state |-> app.state, progress |-> 0, status |-> "", results |-> Null]

\* Mutant: setStatus('') is missing.
resetAppKeepsStatus(app) ==
    [state |-> "upload", progress |-> 0, status |-> app.status, results |-> Null]

resetApp(app) ==
    [state |-> "upload", progress |-> 0, status |-> "", results |-> Null]

handleReset ==
    /\ ResetButtonRendered
    /\ state' = resetApp(AppState).state
    /\ progress' = resetApp(AppState).progress
    /\ status' = resetApp(AppState).status
    /\ results' = resetApp(AppState).results
    /\ runs' = [r \in Requests |-> IF InFlight(r) THEN [runs[r] EXCEPT !.stale = TRUE]
                                   ELSE runs[r]]
    /\ emitPrev' = 0
    /\ emitLast' = 0
    /\ predicted' = <<>>
    /\ UNCHANGED <<nreq, timers>>

Next ==
    \/ \E r \in Requests, file \in Files : handleFileSelect(r, file)
    \/ \E r \in Requests : ParseSettles(r)
    \/ \E r \in Requests : handleUseSampleData(r)
    \/ \E r \in Requests : StepLoop(r)
    \/ \E r \in Requests : Complete(r)
    \/ \E r \in Requests : PredictThrows(r)
    \/ handleReset

Spec == Init /\ [][Next]_vars

\* The executions in which no stage raises an error and every timer that
\* was set fires.
TimerFires == \E r \in Requests : StepLoop(r) \/ Complete(r)

NextNoError ==
    \/ \E r \in Requests, file \in Files : handleFileSelect(r, file)
    \/ \E r \in Requests : ParseSettles(r)
    \/ \E r \in Requests : handleUseSampleData(r)
    \/ \E r \in Requests : StepLoop(r)
    \/ \E r \in Requests : Complete(r)
    \/ handleReset

LiveSpec == Init /\ [][NextNoError]_vars /\ WF_vars(TimerFires)

\* ------------------------------------------------------------------ claims
PredictStage == 4     \* the step announced as 'Running predictions...'
OnlyRun(r) == \A q \in Requests \ {r} : runs[q].pc = "unused"
LastEmitted(r) == steps[runs[r].step].progress

\* C1: every stored AnalysisResult has failurePredictions + normalPredictions
\* equal to totalSamples, and as many predictions as totalSamples.
C1_CountsAddUp ==
    results # Null =>
        /\ results[1].failurePredictions + results[1].normalPredictions
              = results[1].totalSamples
        /\ Len(results[1].predictions) = results[1].totalSamples
C1_Witness ==
    /\ results # Null
    /\ results[1].failurePredictions > 0
    /\ results[1].normalPredictions > 0

\* C2: at most one processData run is in progress at any time; a request made
\* while another is unfinished never starts a second run.
C2_AtMostOneRun ==
    Cardinality({r \in Requests : runs[r].pc = "waiting"}) <= 1

\* C3: the last percentage a finished run emitted is 100 exactly when the run
\* completed; a run that failed did not end on 100.
C3_HundredIffCompleted ==
    \A r \in Requests :
        runs[r].pc \in {"completed", "failed"} =>
            (LastEmitted(r) = 100 <=> runs[r].pc = "completed")

\* C4: while the app is 'processing', each stage percentage the step loop
\* writes is strictly greater than the stage percentage written before it.
C4_StrictlyIncreasing ==
    state = "processing" => emitPrev < emitLast

\* C5: after a run has failed, the app state is no longer 'processing'.
C5_FailureLeavesProcessing ==
    \A r \in Requests : runs[r].pc = "failed" => state # "processing"

\* C6: a failed run raised exactly one error, that error reached the outside
\* exactly once (one alert from handleFileSelect, or one rejection leaving
\* handleUseSampleData), and processData was invoked once for it (no retry).
C6_OneErrorPerFailedRun ==
    \A r \in Requests :
        runs[r].pc = "failed" =>
            /\ runs[r].thrown = 1
            /\ runs[r].alerts + runs[r].unhandled = 1
            /\ runs[r].attempts = 1
C6_Witness ==
    /\ \E r \in Requests : runs[r].pc = "failed" /\ runs[r].kind = "file"
    /\ \E r \in Requests : runs[r].pc = "failed" /\ runs[r].kind = "sample"

\* C7: after the only run has failed at classifier.predict, no AnalysisResult
\* is stored and the visible status and percentage are those of the stage
\* before 'Running predictions...', the last one that completed.
C7_FailureShowsLastCompletedStage ==
    \A r \in Requests :
        (runs[r].pc = "failed" /\ OnlyRun(r)) =>
            /\ results = Null
            /\ progress = steps[PredictStage - 1].progress
            /\ status = steps[PredictStage - 1].message

C9_ResultsTerminal ==
    [][state = "results" =>
          \/ state' = "results" /\ results' = results
          \/ state' = "upload" /\ results' = Null]_vars

\* C10: a run requested before a reset neither enters 'processing' nor stores
\* its AnalysisResult after that reset.
C10_StaleRunsDiscarded ==
    [][\A r \in Requests :
          runs[r].stale =>
              ~(runs'[r].pc # runs[r].pc /\ runs'[r].pc \in {"waiting", "completed"})]_vars

\* C11: when no stage raises an error and the timers fire, every run that
\* has entered 'processing' eventually completes; the step that completes it
\* comes after exactly five notifications of that run and leaves the state
\* 'results' with an AnalysisResult stored.
C11_RunsComplete ==
    /\ \A r \in Requests : (runs[r].pc = "waiting") ~> (runs[r].pc = "completed")
    /\ [][\A r \in Requests :
             (runs[r].pc = "waiting" /\ runs'[r].pc = "completed") =>
                 /\ runs[r].step = 5
                 /\ state' = "results"
                 /\ results' # Null]_vars
C11_Witness ==
    \E r \in Requests :
        /\ runs[r].pc = "completed" /\ runs[r].step = 5
        /\ state = "results" /\ results # Null

\* C12: a step in which a run's step loop writes status and progress leaves
\* the app state 'processing'; no notification is written in 'upload' or
\* 'results'.
C12_NotifyOnlyWhileProcessing ==
    [][\A r \in Requests :
          runs'[r].step # runs[r].step => state' = "processing"]_vars

\* C13: the stored predictions are the sequence classifier.predict returned,
\* in the same order, and the two counts are the numbers of its entries
\* labelled 'failure' and 'normal'.
C13_PureReduction ==
    results # Null =>
        /\ results[1].predictions = predicted
        /\ results[1].failurePredictions
              = Cardinality({i \in DOMAIN predicted : predicted[i].prediction = "failure"})
        /\ results[1].normalPredictions
              = Cardinality({i \in DOMAIN predicted : predicted[i].prediction = "normal"})
C13_Witness ==
    /\ results # Null
    /\ Len(predicted) >= 2
    /\ predicted[1].prediction # predicted[2].prediction

\* C14: when parseCSV rejects, the step that handles the rejection starts no
\* run, raises exactly one alert, leaves state, progress, status and results
\* unchanged, and the app is in 'upload' with results null.
C14_ParseRejectFrame ==
    [][\A r \in Requests :
          (runs[r].pc = "parsing" /\ runs'[r].pc = "rejected") =>
              /\ runs'[r].attempts = 0
              /\ runs'[r].alerts = runs[r].alerts + 1
              /\ AppState' = AppState
              /\ state' = "upload" /\ results' = Null]_vars

\* C15: whenever the state is 'results', results is not null.
C15_ResultsStateHasResults ==
    state = "results" => results # Null
C15_Witness ==
    /\ state = "results"
    /\ \E r \in Requests : runs[r].stale /\ runs[r].pc = "completed"

\* C16: a run calls classifier.predict at most once, only after it has
\* emitted all five notifications, and exactly once by the time it ends.
C16_PredictOnceAfterAllSteps ==
    \A r \in Requests :
        /\ runs[r].predicts <= 1
        /\ runs[r].predicts = 1 => LastEmitted(r) = 100 /\ runs[r].step = 5
        /\ runs[r].pc \in {"completed", "failed"} => runs[r].predicts = 1
        /\ runs[r].pc \in {"unused", "parsing", "waiting", "rejected"} => runs[r].predicts = 0
C16_Witness ==
    \E r \in Requests : runs[r].predicts = 1 /\ runs[r].pc = "completed"

\* C17: the step of handleReset leaves exactly the initial values of state,
\* progress, status and results, and resetting that state again changes
\* nothing.
C17_ResetRestoresInitial ==
    [][(state = "results" /\ state' # "results" /\ results' = Null) =>
          /\ AppState' = InitialAppState
          /\ resetApp(AppState') = AppState']_vars
C17_Witness ==
    /\ AppState = InitialAppState
    /\ \E r \in Requests : runs[r].pc = "completed"
    /\ \A r \in Requests : ~InFlight(r)

====
